---- MODULE Spec2Model ----
(***************************************************************************)
(* Model of fetch-all-teachers.py: the paginated fetcher with the retrying *)
(* HTTP session, the per-course processor, the JSON progress file and the  *)
(* orchestrating main() with its thread pool, plus process kill/restart.   *)
(* Strings are sequences of one-character strings, so that split, endswith *)
(* and the course-code pattern are computed and not assumed.               *)
(***************************************************************************)
EXTENDS Integers, Sequences, FiniteSets, TLC

(* ---------------------------------------------------------------- bounds *)
\* Number of distinct course ids the account can hold.
NumCourses == 2
\* Largest number of pages of a drawn endpoint in the fetcher specification.
MaxPages == 3
\* Largest number of consecutive retryable answers a scripted server gives.
MaxFails == 6
\* Number of program runs (first start plus restarts) that are explored.
MaxRuns == 2

(* ------------------------------------------------- configuration values *)
MAX_RETRIES == 5
CONCURRENT_REQUESTS == 5
StatusForcelist == {429, 500, 502, 503, 504}

\* Page urls are the positive numbers; None is the absent next link.
None == 0

(* ------------------------------------------------------ string helpers  *)
Upper == {"A", "B", "C", "D", "J", "M", "S", "T", "W"}
Lower == {"a", "b", "d", "e", "i", "j", "o", "p", "s", "w"}
Digit == {"0", "1", "2", "3", "4", "5", "6", "7", "8", "9"}
WordChar == Upper \cup Lower \cup Digit \cup {"_"}

\* str(n) for a small natural number: its decimal digits.
DigitChar(d) ==
    CASE d = 0 -> "0" [] d = 1 -> "1" [] d = 2 -> "2" [] d = 3 -> "3"
      [] d = 4 -> "4" [] d = 5 -> "5" [] d = 6 -> "6" [] d = 7 -> "7"
      [] d = 8 -> "8" [] d = 9 -> "9"

RECURSIVE Str(_)
Str(n) == IF n < 10 THEN <<DigitChar(n)>> ELSE Str(n \div 10) \o <<DigitChar(n % 10)>>

\* s.endswith(suffix)
EndsWith(s, suffix) ==
    /\ Len(s) >= Len(suffix)
    /\ SubSeq(s, Len(s) - Len(suffix) + 1, Len(s)) = suffix

\* clean_sis_id: drop a trailing "_e".
clean_sis_id(sis_id) ==
    IF EndsWith(sis_id, <<"_", "e">>) THEN SubSeq(sis_id, 1, Len(sis_id) - 2) ELSE sis_id

\* Positions of the spaces of a string.
SpacePositions(s) == {i \in 1..Len(s) : s[i] = " "}

\* full_name.split(' ', 1): the list of one or two parts.
SplitFirstSpace(s) ==
    IF SpacePositions(s) = {} THEN <<s>>
    ELSE LET i == CHOOSE k \in SpacePositions(s) : \A j \in SpacePositions(s) : k <= j
         IN  <<SubSeq(s, 1, i - 1), SubSeq(s, i + 1, Len(s))>>

\* \b between positions i-1 and i of s (1 <= i <= Len(s)+1).
WordBoundary(s, i) ==
    LET before == i > 1 /\ s[i - 1] \in WordChar
        after  == i <= Len(s) /\ s[i] \in WordChar
    IN  before # after

\* The pattern (\b[A-Z]+\b) \d{4}-\d{2} matches with its group at s[i..j].
SegmentMatchAt(s, i, j) ==
    /\ 1 <= i /\ i <= j /\ j + 8 <= Len(s)
    /\ \A k \in i..j : s[k] \in Upper
    /\ WordBoundary(s, i)
    /\ WordBoundary(s, j + 1)
    /\ s[j + 1] = " "
    /\ \A k \in (j + 2)..(j + 5) : s[k] \in Digit
    /\ s[j + 6] = "-"
    /\ \A k \in (j + 7)..(j + 8) : s[k] \in Digit

\* extract_course_segment: group 1 of the leftmost match, or ''.
extract_course_segment(course_str) ==
    LET starts == {i \in 1..Len(course_str) :
                      \E j \in i..Len(course_str) : SegmentMatchAt(course_str, i, j)}
    IN  IF starts = {} THEN <<>>
        ELSE LET i == CHOOSE a \in starts : \A b \in starts : a <= b
                 j == CHOOSE e \in i..Len(course_str) : SegmentMatchAt(course_str, i, e)
             IN  SubSeq(course_str, i, j)

(* ------------------------------------------- HTTP session with retries  *)
\* A scripted server answer for one page: `fails` consecutive answers with the
\* status `code`, then the status `final` on every later attempt.
StatusAt(script, attempt) == IF attempt <= script.fails THEN script.code ELSE script.final

\* One more attempt is made while the answer is in the status_forcelist and
\* retries remain; with none left the adapter raises (RetryError).
UrlopenMutRetryBudget(script, attempt, remaining) == remaining > 1

UrlopenMayRetry(script, attempt, remaining) == remaining > 0

\* The adapter's request loop under Retry(total=MAX_RETRIES, status_forcelist).
RECURSIVE Urlopen(_, _, _)
Urlopen(script, attempt, remaining) ==
    LET status == StatusAt(script, attempt) IN
    IF status \in StatusForcelist
    THEN IF UrlopenMayRetry(script, attempt, remaining)
         THEN Urlopen(script, attempt + 1, remaining - 1)
         ELSE [raised |-> TRUE, status |-> status, attempts |-> attempt]
    ELSE [raised |-> FALSE, status |-> status, attempts |-> attempt]

SessionGetMutNoRetry(script) ==
    LET r == Urlopen(script, 1, 0) IN
    [raised |-> r.raised \/ r.status >= 400, status |-> r.status, attempts |-> r.attempts]

\* session.get(current_page, ...) followed by response.raise_for_status().
SessionGet(script) ==
    LET r == Urlopen(script, 1, MAX_RETRIES) IN
    [raised |-> r.raised \/ r.status >= 400, status |-> r.status, attempts |-> r.attempts]

(* --------------------------------------------------- paginated fetcher  *)
\* What fetch_paginated_results does when a page request raises: log and re-raise.
FetchMutSwallow(results, log) == [raised |-> FALSE, results |-> results, log |-> log]

FetchOnError(results, log) == [raised |-> TRUE, results |-> <<>>, log |-> log]

\* links['next']['url'] if 'next' in links else None
NextMutStop(page) == None

NextPage(page) == page.next

\* The while loop of fetch_paginated_results. content[url] is the page the
\* server holds at url (body, next link), scripts[url] how it answers; log
\* records each session.get call with the attempts it took.
RECURSIVE FetchLoop(_, _, _, _, _)
FetchLoop(content, scripts, current_page, results, log) ==
    IF current_page = None
    THEN [raised |-> FALSE, results |-> results, log |-> log]
    ELSE LET r    == SessionGet(scripts[current_page])
             log2 == Append(log, [url |-> current_page, attempts |-> r.attempts,
                                  raised |-> r.raised])
         IN  IF r.raised
             THEN FetchOnError(results, log2)
             ELSE FetchLoop(content, scripts, NextPage(content[current_page]),
                            results \o content[current_page].body, log2)

fetch_paginated_results(content, scripts, endpoint) ==
    FetchLoop(content, scripts, endpoint, <<>>, <<>>)

(* ------------------------------------------------ the upstream account  *)
\* The data the API serves. Three account states are explored: "shared" (one
\* login teaches every course, under a different name in odd and even
\* courses), "disjoint" (every login teaches exactly one course) and
\* "malformed" (course 1 lists a teacher whose full name has no space).
Worlds == {"shared", "disjoint", "malformed"}

CourseIds == 1..NumCourses

course_code(c) ==
    CASE c % 3 = 1 -> <<"M", "A", " ", "2", "0", "2", "4", "-", "0", "1">>
      [] c % 3 = 2 -> <<"T", "o", "p", "i", "c", "s">>
      [] OTHER     -> <<"a", " ", "C", "S", " ", "2", "0", "2", "4", "-", "0", "2">>

CourseRecord(c) ==
    [id |-> c, course_code |-> course_code(c), enrollment_term_id |-> 337 + (c % 2)]

User(login, name, sis) == [login_id |-> login, name |-> name, sis_user_id |-> sis]

OwnTeacher(c) ==
    User(<<"t">> \o Str(c), <<"T", " ">> \o Str(c),
         IF c % 2 = 1 THEN Str(c) \o <<"_", "e">> ELSE Str(c))

SharedTeacher(c) ==
    User(<<"j", "d">>,
         IF c % 2 = 1 THEN <<"J", " ", "D">> ELSE <<"J", "o", " ", "D", " ", "W">>,
         <<"9", "_", "e">>)

BadTeacher == User(<<"b", "o", "b">>, <<"B", "o", "b">>, <<>>)

\* The pages of the teacher enrollments of course c.
Enrollments(w, c) ==
    CASE w = "shared"    -> << <<SharedTeacher(c)>>, <<OwnTeacher(c)>> >>
      [] w = "disjoint"  -> << <<OwnTeacher(c)>> >>
      [] w = "malformed" -> IF c = 1 THEN << <<OwnTeacher(c), BadTeacher>> >>
                                     ELSE << <<OwnTeacher(c)>> >>

\* A paginated resource: page p links to page p + 1, the last page has no next link.
Chain(pages) ==
    [p \in 1..Len(pages) |-> [body |-> pages[p],
                              next |-> IF p < Len(pages) THEN p + 1 ELSE None]]

\* The course listings the account endpoint may return in a run: all the
\* courses on two pages, the listing after the last course was removed, and a
\* listing that repeats the first course on its second page (an item shifting
\* between two page requests).
FirstPage == [i \in 1..(NumCourses - 1) |-> i]

Listings ==
    { <<FirstPage, <<NumCourses>> >>, <<FirstPage>>, <<FirstPage, <<1>> >> }

\* How the server may answer a page request of a run: at once, after two
\* retryable answers, with a retryable status for ever, or with a 404.
TaskScripts ==
    { [fails |-> 0, code |-> 503, final |-> 200],
      [fails |-> 2, code |-> 429, final |-> 200],
      [fails |-> 0, code |-> 503, final |-> 503],
      [fails |-> 0, code |-> 503, final |-> 404] }

(* ----------------------------------------------------- course processor *)
EmptyMap == [l \in {} |-> <<>>]

\* The fact stored for one enrollment record (a Python tuple).
Fact(course, user) ==
    LET parts == SplitFirstSpace(user.name) IN
    [tuple |-> <<parts[1], parts[2], extract_course_segment(course.course_code),
                 clean_sis_id(user.sis_user_id), course.enrollment_term_id>>]

\* first_name, last_name = full_name.split(' ', 1) raises unless there are two parts.
Unpackable(user) == Len(SplitFirstSpace(user.name)) = 2

\* course_teachers[login_id] = ... over the users in order: the last record of a login stays.
CourseTeachers(course, users) ==
    LET logins == {users[i].login_id : i \in 1..Len(users)}
        last(l) == CHOOSE i \in 1..Len(users) :
                      /\ users[i].login_id = l
                      /\ \A j \in 1..Len(users) : users[j].login_id = l => j <= i
    IN  [l \in logins |-> Fact(course, users[last(l)])]

\* The ValueError of the unpacking leaves process_course: nothing is returned.
UnpackErrorMutSkipRecord(course, fetched) ==
    [raised |-> FALSE,
     teachers |-> CourseTeachers(course, SelectSeq(fetched.results, Unpackable)),
     fetch |-> fetched]

UnpackError(course, fetched) == [raised |-> TRUE, teachers |-> EmptyMap, fetch |-> fetched]

\* process_course: the fetch of the enrollments and the reduction to a map.
process_course(course, pages, scripts) ==
    LET fetched == fetch_paginated_results(Chain(pages), scripts, 1) IN
    IF fetched.raised
    THEN [raised |-> TRUE, teachers |-> EmptyMap, fetch |-> fetched]
    ELSE IF \E i \in 1..Len(fetched.results) : ~Unpackable(fetched.results[i])
         THEN UnpackError(course, fetched)
         ELSE [raised |-> FALSE, teachers |-> CourseTeachers(course, fetched.results),
               fetch |-> fetched]

(* ---------------------------------------------------------- progress store *)
RECURSIVE SetToSeq(_)
SetToSeq(S) ==
    IF S = {} THEN <<>>
    ELSE LET x == CHOOSE y \in S : TRUE IN <<x>> \o SetToSeq(S \ {x})

Range(q) == {q[i] : i \in 1..Len(q)}

DumpMutNoTeachers(processed, teachers) ==
    [processed_courses   |-> SetToSeq(processed),
     all_teacher_courses |-> EmptyMap]

\* The document json.dump writes: a list of ids and login -> list of fields.
DumpProgress(processed, teachers) ==
    [processed_courses   |-> SetToSeq(processed),
     all_teacher_courses |-> [k \in DOMAIN teachers |-> teachers[k].tuple]]

NoFile == [kind |-> "absent", data |-> DumpProgress({}, EmptyMap)]

TornFile == [kind |-> "torn", data |-> DumpProgress({}, EmptyMap)]

SaveMutNoTeachers(processed, teachers) ==
    [kind |-> "ok", data |-> DumpProgress(processed, EmptyMap)]

\* save_progress run to completion: the file holds the whole document.
save_progress(processed, teachers) == [kind |-> "ok", data |-> DumpProgress(processed, teachers)]

LoadMutDropTeachers(file) ==
    [raised |-> file.kind = "torn",
     processed |-> IF file.kind = "ok" THEN Range(file.data.processed_courses) ELSE {},
     teachers |-> EmptyMap]

LoadMutAssumeEmpty(file) ==
    [raised |-> FALSE,
     processed |-> IF file.kind = "ok" THEN Range(file.data.processed_courses) ELSE {},
     teachers |-> IF file.kind = "ok"
                  THEN [k \in DOMAIN file.data.all_teacher_courses |->
                           [tuple |-> file.data.all_teacher_courses[k]]]
                  ELSE EmptyMap]

\* load_progress: (set, dict of tuples) of the file, the empty pair when the
\* file is absent; an unparseable file raises (only FileNotFoundError is caught).
load_progress(file) ==
    CASE file.kind = "absent" ->
           [raised |-> FALSE, processed |-> {}, teachers |-> EmptyMap]
      [] file.kind = "ok" ->
           [raised |-> FALSE,
            processed |-> Range(file.data.processed_courses),
            teachers  |-> [k \in DOMAIN file.data.all_teacher_courses |->
                              [tuple |-> file.data.all_teacher_courses[k]]]]
      [] OTHER ->
           [raised |-> TRUE, processed |-> {}, teachers |-> EmptyMap]

\* all_teacher_courses.update(course_results)
Update(teachers, course_results) ==
    [l \in DOMAIN teachers \cup DOMAIN course_results |->
        IF l \in DOMAIN course_results THEN course_results[l] ELSE teachers[l]]

(* ------------------------------------------------------------------ state *)
VARIABLES
    world,                \* the account's data (fixed during a behaviour)
    run,                  \* number of the current program run
    prev,                 \* how the previous run ended: "none", "done", "failed", "killed"
    pc,                   \* position of main(): start, enumerate, collect, done, failed, killed
    disk,                 \* PROGRESS_FILE
    csv,                  \* all_teachers.csv: the rows written, keyed by login
    processed_courses,    \* main(): set of str(course id)
    all_teacher_courses,  \* main(): login -> fact
    courses_processed,    \* main(): counter
    all_courses,          \* main(): the course records fetched
    loaded,               \* the processed set load_progress returned in this run
    loaded_teachers,      \* the teacher map load_progress returned in this run
    tasks,                \* future_to_course: one entry per submitted course
    held,                 \* every (processed, teachers) pair main() has held
    call                  \* a single call of the fetcher or the course processor

vars == <<world, run, prev, pc, disk, csv, processed_courses, all_teacher_courses,
          courses_processed, all_courses, loaded, loaded_teachers, tasks, held, call>>

mainVars == <<world, run, prev, pc, disk, csv, processed_courses, all_teacher_courses,
              courses_processed, all_courses, loaded, loaded_teachers, tasks, held>>

NoCsv == [written |-> FALSE, rows |-> EmptyMap]

NoCall == [kind |-> "none"]

\* The memory of a process that has not loaded anything yet.
FreshMemory ==
    /\ processed_courses' = {}
    /\ all_teacher_courses' = EmptyMap
    /\ courses_processed' = 0
    /\ all_courses' = <<>>
    /\ loaded' = {}
    /\ loaded_teachers' = EmptyMap
    /\ tasks' = <<>>

Init ==
    /\ world \in Worlds
    /\ run = 1
    /\ prev = "none"
    /\ pc = "start"
    /\ disk = NoFile
    /\ csv = NoCsv
    /\ processed_courses = {}
    /\ all_teacher_courses = EmptyMap
    /\ courses_processed = 0
    /\ all_courses = <<>>
    /\ loaded = {}
    /\ loaded_teachers = EmptyMap
    /\ tasks = <<>>
    /\ held = {}
    /\ call = NoCall

(* ------------------------------------------------------------ main(): load *)
\* processed_courses, all_teacher_courses = load_progress()
Load ==
    /\ pc = "start"
    /\ LET r == load_progress(disk) IN
       IF r.raised
       THEN /\ pc' = "failed"
            /\ UNCHANGED <<processed_courses, all_teacher_courses, loaded, loaded_teachers, held>>
       ELSE /\ pc' = "enumerate"
            /\ processed_courses' = r.processed
            /\ all_teacher_courses' = r.teachers
            /\ loaded' = r.processed
            /\ loaded_teachers' = r.teachers
            /\ held' = held \cup {<<r.processed, r.teachers>>}
    /\ UNCHANGED <<world, run, prev, disk, csv, courses_processed, all_courses, tasks, call>>

(* ------------------------------------------- main(): enumerate and dispatch *)
\* [course for course in all_courses if str(course['id']) not in processed_courses]
ToProcessMutAll(courses, processed) == courses

CoursesToProcess(courses, processed) ==
    SelectSeq(courses, LAMBDA course : Str(course.id) \notin processed)

NewTask(course) ==
    [course |-> course, state |-> "queued", result |-> EmptyMap, collected |-> FALSE]

\* What fetch_all_courses() may return or raise in a run.
CourseFetches ==
    UNION { { fetch_paginated_results(
                 Chain([p \in 1..Len(listing) |->
                          [i \in 1..Len(listing[p]) |-> CourseRecord(listing[p][i])]]),
                 scripts, 1) : scripts \in [1..Len(listing) -> TaskScripts] }
            : listing \in Listings }

\* fetch_all_courses(), the filter and the executor.submit of every course.
Enumerate ==
    /\ pc = "enumerate"
    /\ \E fetched \in CourseFetches :
          IF fetched.raised
          THEN /\ pc' = "failed"
               /\ UNCHANGED <<all_courses, courses_processed, tasks>>
          ELSE /\ pc' = "collect"
               /\ all_courses' = fetched.results
               /\ courses_processed' = Cardinality(processed_courses)
               /\ tasks' = LET todo == CoursesToProcess(fetched.results, processed_courses)
                           IN  [t \in 1..Len(todo) |-> NewTask(todo[t])]
    /\ UNCHANGED <<world, run, prev, disk, csv, processed_courses, all_teacher_courses,
                   loaded, loaded_teachers, held, call>>

(* --------------------------------------------------------- the worker pool *)
Running == {t \in 1..Len(tasks) : tasks[t].state = "running"}

Finished(t) == tasks[t].state \in {"ok", "raised"}

\* A free worker takes the oldest queued work item.
WorkerStart(t) ==
    /\ pc = "collect"
    /\ t \in 1..Len(tasks)
    /\ tasks[t].state = "queued"
    /\ \A u \in 1..(t - 1) : tasks[u].state # "queued"
    /\ Cardinality(Running) < CONCURRENT_REQUESTS
    /\ tasks' = [tasks EXCEPT ![t].state = "running"]
    /\ UNCHANGED <<world, run, prev, pc, disk, csv, processed_courses, all_teacher_courses,
                   courses_processed, all_courses, loaded, loaded_teachers, held, call>>

\* What process_course(course) may return or raise, over the server's answers,
\* for every account state and course.
TaskOutcomes ==
    [w \in Worlds |->
        [c \in CourseIds |->
            { process_course(CourseRecord(c), Enrollments(w, c), scripts) :
                 scripts \in [1..Len(Enrollments(w, c)) -> TaskScripts] }]]

\* What a worker does to the data of main(): process_course builds a local
\* dict and returns it; it names neither the processed set, the teacher map
\* nor the progress file.
WorkerSharedStateMutMerge(r) ==
    /\ all_teacher_courses' = Update(all_teacher_courses, r.teachers)
    /\ UNCHANGED <<processed_courses, disk>>

WorkerSharedState(r) == UNCHANGED <<processed_courses, all_teacher_courses, disk>>

\* The worker runs process_course(course) to its return or its exception.
WorkerFinish(t) ==
    /\ pc = "collect"
    /\ t \in 1..Len(tasks)
    /\ tasks[t].state = "running"
    /\ \E r \in TaskOutcomes[world][tasks[t].course.id] :
          /\ tasks' = [tasks EXCEPT ![t].state = IF r.raised THEN "raised" ELSE "ok",
                                    ![t].result = r.teachers]
          /\ WorkerSharedState(r)
    /\ UNCHANGED <<world, run, prev, pc, csv, courses_processed, all_courses, loaded,
                   loaded_teachers,
                   held, call>>

(* ------------------------------------------------------- main(): collect  *)
Collectable(t) ==
    /\ pc = "collect"
    /\ t \in 1..Len(tasks)
    /\ Finished(t)
    /\ ~tasks[t].collected

\* What the open/json.dump of save_progress may do in a process that keeps
\* running: write the document, fail to open the file (file untouched), or
\* fail while writing (file truncated, document incomplete).
SaveOutcomes == {"written", "open_failed", "write_failed"}

FileAfterSave(outcome, processed, teachers) ==
    CASE outcome = "written"      -> save_progress(processed, teachers)
      [] outcome = "open_failed"  -> disk
      [] outcome = "write_failed" -> TornFile

\* The except clause of the collection loop: log and go on with the next future.
OnTaskErrorMutAbort == "failed"

OnTaskError == "collect"

\* processed_courses.add(str(course['id'])): the element that is added.
ProcessedKeyMutCode(course) == course.course_code

ProcessedKey(course) == Str(course.id)

\* future.result() re-raises the task's exception at line 160: lines 161-169
\* are skipped and the handler only logs.
FailedTaskEffectMutMarkProcessed(t) ==
    /\ processed_courses' = processed_courses \cup {ProcessedKey(tasks[t].course)}
    /\ UNCHANGED <<all_teacher_courses, courses_processed, disk, held>>

FailedTaskEffect(t) ==
    UNCHANGED <<all_teacher_courses, processed_courses, courses_processed, disk, held>>

\* One iteration of `for future in as_completed(...)`: future.result() returns,
\* the map is merged, the id added, the counter raised and the progress saved;
\* an exception of the task or of the save is logged.
Collect(t) ==
    /\ Collectable(t)
    /\ IF tasks[t].state = "ok"
       THEN \E outcome \in SaveOutcomes :
               LET teachers  == Update(all_teacher_courses, tasks[t].result)
                   processed == processed_courses \cup {ProcessedKey(tasks[t].course)}
               IN  /\ all_teacher_courses' = teachers
                   /\ processed_courses' = processed
                   /\ courses_processed' = courses_processed + 1
                   /\ disk' = FileAfterSave(outcome, processed, teachers)
                   /\ held' = held \cup {<<processed, teachers>>}
                   /\ pc' = IF outcome = "written" THEN "collect" ELSE OnTaskError
       ELSE /\ pc' = OnTaskError
            /\ FailedTaskEffect(t)
    /\ tasks' = [tasks EXCEPT ![t].collected = TRUE]
    /\ UNCHANGED <<world, run, prev, csv, all_courses, loaded, loaded_teachers, call>>

(* ------------------------------------------------------ main(): finalize  *)
CsvRow(login, fact) ==
    <<fact.tuple[1], fact.tuple[2], login, fact.tuple[3], fact.tuple[4], fact.tuple[5]>>

\* Leaving the `with` block waits for every worker; then the CSV is written.
LoopExhaustedMutFirstResult == \E t \in 1..Len(tasks) : tasks[t].collected

\* `for future in as_completed(future_to_course)` ends when every future was yielded.
LoopExhausted == \A t \in 1..Len(tasks) : tasks[t].collected

Finalize ==
    /\ pc = "collect"
    /\ LoopExhausted
    /\ csv' = [written |-> TRUE,
               rows |-> [l \in DOMAIN all_teacher_courses |->
                            CsvRow(l, all_teacher_courses[l])]]
    /\ pc' = "done"
    /\ UNCHANGED <<world, run, prev, disk, processed_courses, all_teacher_courses,
                   courses_processed, all_courses, loaded, loaded_teachers, tasks, held, call>>

(* ------------------------------------------------------ kill and restart  *)
\* The process is killed outside save_progress: memory is lost, files stay.
Kill ==
    /\ pc \in {"start", "enumerate", "collect"}
    /\ pc' = "killed"
    /\ FreshMemory
    /\ UNCHANGED <<world, run, prev, disk, csv, held, call>>

\* The process is killed inside save_progress, after open(PROGRESS_FILE, 'w')
\* truncated the file and before json.dump wrote the whole document.
KillInSave(t) ==
    /\ Collectable(t)
    /\ tasks[t].state = "ok"
    /\ disk' = TornFile
    /\ held' = held \cup {<<processed_courses \cup {ProcessedKey(tasks[t].course)},
                           Update(all_teacher_courses, tasks[t].result)>>}
    /\ pc' = "killed"
    /\ FreshMemory
    /\ UNCHANGED <<world, run, prev, csv, call>>

\* The operator starts the program again.
Restart ==
    /\ pc \in {"done", "failed", "killed"}
    /\ run < MaxRuns
    /\ run' = run + 1
    /\ prev' = pc
    /\ pc' = "start"
    /\ FreshMemory
    /\ UNCHANGED <<world, disk, csv, held, call>>

Next ==
    \/ Load
    \/ Enumerate
    \/ \E t \in 1..NumCourses : WorkerStart(t)
    \/ \E t \in 1..NumCourses : WorkerFinish(t)
    \/ \E t \in 1..NumCourses : KillInSave(t)
    \/ Kill
    \/ \E t \in 1..NumCourses : Collect(t)
    \/ Finalize
    \/ Restart

Spec == Init /\ [][Next]_vars

\* A run that nobody kills: workers finish (every request has a timeout and a
\* bounded number of retries) and main() keeps collecting.
NextLive ==
    \/ Load
    \/ Enumerate
    \/ \E t \in 1..NumCourses : WorkerStart(t)
    \/ \E t \in 1..NumCourses : WorkerFinish(t)
    \/ \E t \in 1..NumCourses : Collect(t)
    \/ Finalize
    \/ Restart

SpecLive == Init /\ [][NextLive]_vars /\ WF_vars(NextLive)

(* ------------------------------- single calls of the fetcher / processor  *)
\* The answers a scripted endpoint page may give: up to MaxFails retryable
\* answers and then 200, a 404 at once or after one retryable answer, or the
\* retryable status for ever.
FetchScripts(code) ==
    {[fails |-> k, code |-> code, final |-> 200] : k \in 0..MaxFails}
        \cup {[fails |-> k, code |-> code, final |-> 404] : k \in 0..1}
        \cup {[fails |-> 0, code |-> code, final |-> code]}

\* Page p of a drawn endpoint holds `size` records, each naming its page.
PageBody(p, size) == [i \in 1..size |-> <<p, i>>]

NoOut == [raised |-> FALSE, results |-> <<>>, log |-> <<>>]

FetchCall(n, size, scripts) ==
    [kind |-> "fetch", course |-> 0, done |-> FALSE,
     pages |-> [p \in 1..n |-> PageBody(p, size)], scripts |-> scripts,
     out |-> NoOut, raised |-> FALSE, teachers |-> EmptyMap]

ProcessCall(w, c, scripts) ==
    [kind |-> "process", course |-> c, done |-> FALSE,
     pages |-> Enrollments(w, c), scripts |-> scripts,
     out |-> NoOut, raised |-> FALSE, teachers |-> EmptyMap]

InitFetch ==
    /\ world \in Worlds
    /\ run = 1
    /\ prev = "none"
    /\ pc = "idle"
    /\ disk = NoFile
    /\ csv = NoCsv
    /\ processed_courses = {}
    /\ all_teacher_courses = EmptyMap
    /\ courses_processed = 0
    /\ all_courses = <<>>
    /\ loaded = {}
    /\ loaded_teachers = EmptyMap
    /\ tasks = <<>>
    /\ held = {}
    /\ \/ /\ world = "shared"
          /\ \E n \in 1..MaxPages, size \in 0..2, code \in StatusForcelist :
                \E scripts \in [1..n -> FetchScripts(code)] :
                   call = FetchCall(n, size, scripts)
       \/ \E c \in CourseIds :
             \E scripts \in [1..Len(Enrollments(world, c)) -> TaskScripts] :
                call = ProcessCall(world, c, scripts)

\* results = fetch_paginated_results(endpoint)
CallFetch ==
    /\ call.kind = "fetch"
    /\ ~call.done
    /\ LET r == fetch_paginated_results(Chain(call.pages), call.scripts, 1) IN
       call' = [call EXCEPT !.done = TRUE, !.out = r, !.raised = r.raised]
    /\ UNCHANGED mainVars

\* course_teachers = process_course(course)
CallProcessCourse ==
    /\ call.kind = "process"
    /\ ~call.done
    /\ LET r == process_course(CourseRecord(call.course), call.pages, call.scripts) IN
       call' = [call EXCEPT !.done = TRUE, !.out = r.fetch, !.raised = r.raised,
                            !.teachers = r.teachers]
    /\ UNCHANGED mainVars

NextFetch == CallFetch \/ CallProcessCourse

SpecFetch == InitFetch /\ [][NextFetch]_vars

(* ================================================================ claims *)
ProcessedOnDisk == IF disk.kind = "ok" THEN Range(disk.data.processed_courses) ELSE {}

\* C1: first-seen-wins. Once the running teacher map holds a fact for a
\* login_id, no step of the run replaces it by another fact: merging a later
\* course that contains the same login_id does not overwrite it.
FirstSeenWins ==
    [][\A l \in DOMAIN all_teacher_courses :
          l \in DOMAIN all_teacher_courses' =>
              all_teacher_courses'[l] = all_teacher_courses[l]]_vars

\* C2: crash-safe checkpoint. In every reachable state, a kill in the middle
\* of save_progress included, the progress file is absent or a complete
\* document that load_progress accepts and that equals a (processed, teachers)
\* pair main() held earlier.
CheckpointCrashSafe ==
    /\ disk.kind \in {"absent", "ok"}
    /\ disk.kind = "ok" =>
          /\ ~load_progress(disk).raised
          /\ <<load_progress(disk).processed, load_progress(disk).teachers>> \in held

\* C3: a course whose task raised is never in the processed set, neither in
\* memory nor in the progress file written afterwards.
FailedCourseNeverProcessed ==
    \A t \in 1..Len(tasks) :
        (tasks[t].collected /\ tasks[t].state = "raised") =>
            /\ Str(tasks[t].course.id) \notin processed_courses
            /\ Str(tasks[t].course.id) \notin ProcessedOnDisk

\* C4: a failing course does not abort the run. In a run that is not killed,
\* once the courses are submitted the run reaches its end with every task
\* collected, and every task that succeeded has its course id in the processed
\* set and its logins in the teacher map.
AllCollectedAndMerged ==
    /\ pc = "done"
    /\ \A t \in 1..Len(tasks) :
          /\ tasks[t].collected
          /\ tasks[t].state = "ok" =>
                /\ Str(tasks[t].course.id) \in processed_courses
                /\ DOMAIN tasks[t].result \subseteq DOMAIN all_teacher_courses

FailureDoesNotAbort == (pc = "collect") ~> AllCollectedAndMerged

\* A finished run in which one course failed and another one was merged.
FailureDoesNotAbortWitness ==
    /\ AllCollectedAndMerged
    /\ \E t \in 1..Len(tasks) : tasks[t].state = "raised"
    /\ \E t \in 1..Len(tasks) : tasks[t].state = "ok" /\ tasks[t].result # EmptyMap

\* C5: resume skips completed work. In every run the submitted courses are
\* exactly the listed courses whose id is not in the loaded checkpoint, one
\* task per such list entry, and the loaded checkpoint is what the progress
\* file held when the run started.
IdsOf(courses) == {Str(courses[i].id) : i \in 1..Len(courses)}

ResumeSkipsCompleted ==
    /\ pc = "enumerate" => loaded = ProcessedOnDisk
    /\ pc \in {"collect", "done"} =>
          /\ {Str(tasks[t].course.id) : t \in 1..Len(tasks)} = IdsOf(all_courses) \ loaded
          /\ Len(tasks) =
                Cardinality({i \in 1..Len(all_courses) : Str(all_courses[i].id) \notin loaded})
          /\ \A t \in 1..Len(tasks) : Str(tasks[t].course.id) \notin loaded

\* A restarted run after a kill that found K >= 1 courses checkpointed, lists
\* all N courses and has submitted the N - K others.
ResumeSkipsCompletedWitness ==
    /\ run > 1 /\ prev = "killed" /\ pc = "collect"
    /\ loaded # {}
    /\ IdsOf(all_courses) = {Str(c) : c \in CourseIds}
    /\ Len(all_courses) = NumCourses
    /\ Len(tasks) = NumCourses - Cardinality(loaded)
    /\ Len(tasks) >= 1

\* C6: resume equivalence. The teacher map a run ends with, a run resumed
\* after a kill included, is one that an uninterrupted run in which the same
\* courses succeed can end with (the runs may differ in the order in which
\* the courses are merged); when every login teaches exactly one course there
\* is exactly one such map.
SuccessResult(c) == (CHOOSE r \in TaskOutcomes[world][c] : ~r.raised).teachers

RECURSIVE UninterruptedMaps(_, _)
UninterruptedMaps(S, acc) ==
    IF S = {} THEN {acc}
    ELSE UNION {UninterruptedMaps(S \ {c}, Update(acc, SuccessResult(c))) : c \in S}

ProcessedIds == {c \in CourseIds : Str(c) \in processed_courses}

LoginsOf(c) ==
    UNION { {Enrollments(world, c)[p][i].login_id : i \in 1..Len(Enrollments(world, c)[p])}
            : p \in 1..Len(Enrollments(world, c)) }

EachLoginOneCourse ==
    \A c \in CourseIds : \A d \in CourseIds : c # d => LoginsOf(c) \cap LoginsOf(d) = {}

ResumeEquivalence ==
    pc = "done" =>
        /\ all_teacher_courses \in UninterruptedMaps(ProcessedIds, EmptyMap)
        /\ EachLoginOneCourse => UninterruptedMaps(ProcessedIds, EmptyMap) = {all_teacher_courses}

\* A run resumed after a kill, from a checkpoint that held some courses, ends
\* with every course processed, part of them in this run.
ResumeEquivalenceWitness ==
    /\ pc = "done" /\ run > 1 /\ prev = "killed"
    /\ loaded # {}
    /\ EachLoginOneCourse
    /\ ProcessedIds = CourseIds
    /\ \E t \in 1..Len(tasks) : tasks[t].state = "ok" /\ tasks[t].result # EmptyMap

(* --------------------------------------------------- claims on the fetcher *)
Log == call.out.log

ScriptOf(i) == call.scripts[Log[i].url]

AlwaysRetryable(script) ==
    script.code \in StatusForcelist /\ script.final \in StatusForcelist

\* C7 (as stated): a page whose every answer is a retryable status is requested
\* exactly MAX_RETRIES times, and then the fetch raises.
ExhaustionAfterMaxRetriesAttempts ==
    call.done =>
        \A i \in 1..Len(Log) :
            AlwaysRetryable(ScriptOf(i)) => Log[i].attempts = MAX_RETRIES /\ call.out.raised

\* C7 (amended): a page whose every answer is a retryable status is requested
\* exactly MAX_RETRIES + 1 times (the first attempt and MAX_RETRIES retries);
\* then the fetch raises to its caller and requests no further page.
ExhaustionAfterMaxRetriesRetries ==
    call.done =>
        \A i \in 1..Len(Log) :
            AlwaysRetryable(ScriptOf(i)) =>
                /\ Log[i].attempts = MAX_RETRIES + 1
                /\ Log[i].raised
                /\ call.out.raised
                /\ i = Len(Log)

\* The second page of an endpoint answers with a retryable status for ever.
ExhaustionWitness ==
    /\ call.kind = "fetch" /\ call.done
    /\ Len(Log) = 2
    /\ AlwaysRetryable(ScriptOf(2))
    /\ ~AlwaysRetryable(ScriptOf(1))

\* C8: retry convergence. A page that answers k < MAX_RETRIES times with a
\* retryable status and then with 200 is obtained at attempt k + 1 without an
\* error; the fetch goes on with the next page if there is one, and the
\* page's records are in the result of a fetch that returns.
RetryConvergence ==
    call.done =>
        \A i \in 1..Len(Log) :
            (ScriptOf(i).fails < MAX_RETRIES /\ ScriptOf(i).final = 200) =>
                /\ ~Log[i].raised
                /\ Log[i].attempts = ScriptOf(i).fails + 1
                /\ IF Log[i].url < Len(call.pages)
                   THEN Len(Log) > i /\ Log[i + 1].url = Log[i].url + 1
                   ELSE ~call.out.raised
                /\ ~call.out.raised =>
                      Range(call.pages[Log[i].url]) \subseteq Range(call.out.results)

\* The first of several pages answers MAX_RETRIES - 1 times with a retryable
\* status before it succeeds, and the second page is then requested.
RetryConvergenceWitness ==
    /\ call.kind = "fetch" /\ call.done
    /\ Len(call.pages) >= 2 /\ Len(Log) >= 2
    /\ ScriptOf(1).fails = MAX_RETRIES - 1 /\ ScriptOf(1).final = 200
    /\ call.pages[1] # <<>>

\* C9: pagination completeness. The pages are requested one after the other in
\* chain order, each at most once; a fetch that returns has requested each of
\* the N pages exactly once and returns the concatenation of their records in
\* page order.
RECURSIVE Concat(_)
Concat(pages) ==
    IF pages = <<>> THEN <<>>
    ELSE Concat(SubSeq(pages, 1, Len(pages) - 1)) \o pages[Len(pages)]

PaginationComplete ==
    call.done =>
        /\ \A i \in 1..Len(Log) : Log[i].url = i
        /\ Len(Log) <= Len(call.pages)
        /\ ~call.out.raised =>
              /\ Len(Log) = Len(call.pages)
              /\ call.out.results = Concat(call.pages)

\* A fetch over the longest chain, with records on its pages, has returned.
PaginationCompleteWitness ==
    /\ call.kind = "fetch" /\ call.done /\ ~call.out.raised
    /\ Len(call.pages) = MaxPages
    /\ Len(call.out.results) > Len(call.pages[1])
    /\ \E p \in 1..Len(call.pages) : call.scripts[p].fails > 0

\* C10: no silent partial results. When a page request fails, the fetch
\* raises and hands none of the records fetched so far to its caller, and
\* process_course raises too and returns no teacher map.
NoPartialResults ==
    call.done =>
        ((\E i \in 1..Len(Log) : Log[i].raised) =>
            /\ call.out.raised
            /\ call.out.results = <<>>
            /\ call.raised
            /\ call.teachers = EmptyMap)

\* process_course whose enrollment fetch got a first page with a teacher and
\* then failed on the second page.
NoPartialResultsWitness ==
    /\ call.kind = "process" /\ call.done
    /\ Len(Log) = 2 /\ Log[2].raised
    /\ call.pages[1] # <<>>

(* ------------------------------------------------ claims on the orchestrator *)
\* C11: no course id is processed more than once within a single run. For
\* every course list the API returns, the submitted tasks carry pairwise
\* different course ids, and none of them is in the checkpoint loaded at start.
NoCourseSubmittedTwice ==
    pc \in {"collect", "done"} =>
        /\ \A t \in 1..Len(tasks) : \A u \in 1..Len(tasks) :
              t # u => tasks[t].course.id # tasks[u].course.id
        /\ \A t \in 1..Len(tasks) : Str(tasks[t].course.id) \notin loaded

\* C12: serialized merge-and-save. In a running process, under every
\* interleaving of the workers, a step completes the collection of at most one
\* course; the processed set, the teacher map and the progress file change
\* only in the step that collects one finished task; and a step of a worker
\* (a task starting or finishing) leaves all three unchanged.
NewlyCollected == {t \in 1..Len(tasks) : ~tasks[t].collected /\ tasks'[t].collected}

WorkerStepped == \E t \in 1..Len(tasks) : tasks'[t].state # tasks[t].state

SharedUnchanged == UNCHANGED <<processed_courses, all_teacher_courses, disk>>

SerializedMergeAndSave ==
    [][(pc = "collect" /\ pc' = "collect") =>
          /\ Cardinality(NewlyCollected) <= 1
          /\ ~SharedUnchanged =>
                /\ Cardinality(NewlyCollected) = 1
                /\ \A t \in NewlyCollected : tasks[t].state = "ok"
                /\ ~WorkerStepped
          /\ WorkerStepped => SharedUnchanged /\ NewlyCollected = {}]_vars

\* Two tasks had finished before either was collected or one finished while
\* the other was being collected: one is merged and saved, the other has
\* finished and waits for its turn.
SerializedMergeAndSaveWitness ==
    /\ pc = "collect"
    /\ \E t \in 1..Len(tasks) : \E u \in 1..Len(tasks) :
          /\ tasks[t].collected /\ tasks[t].state = "ok" /\ tasks[t].result # EmptyMap
          /\ ~tasks[u].collected /\ tasks[u].state = "ok"
          /\ Str(tasks[t].course.id) \in ProcessedOnDisk
          /\ Str(tasks[u].course.id) \notin processed_courses

\* C13: drain before finalize. The step that writes the export file is taken
\* only when every submitted task has finished (returned or raised) and was
\* collected; the file then holds exactly one row per login of the accumulated
\* map: the logins of the loaded checkpoint and of every course collected
\* successfully in this run, a login of such a course with the fact of one of
\* these courses, every other login with its checkpointed fact.
OkTasks == {t \in 1..Len(tasks) : tasks[t].state = "ok" /\ tasks[t].collected}

RunLogins == UNION {DOMAIN tasks[t].result : t \in OkTasks}

DrainBeforeFinalize ==
    [][(csv' # csv \/ (pc # "done" /\ pc' = "done")) =>
          /\ pc = "collect"
          /\ \A t \in 1..Len(tasks) : Finished(t) /\ tasks[t].collected
          /\ csv'.written
          /\ DOMAIN csv'.rows = DOMAIN loaded_teachers \cup RunLogins
          /\ \A l \in DOMAIN csv'.rows :
                IF l \in RunLogins
                THEN \E t \in OkTasks :
                        /\ l \in DOMAIN tasks[t].result
                        /\ csv'.rows[l] = CsvRow(l, tasks[t].result[l])
                ELSE csv'.rows[l] = CsvRow(l, loaded_teachers[l])]_vars

\* A resumed run has written the export: it started from a checkpoint with
\* teachers, one of its tasks raised and another one returned teachers, and
\* the file has rows from the checkpoint and from this run.
DrainBeforeFinalizeWitness ==
    /\ pc = "done" /\ run > 1 /\ csv.written
    /\ \E t \in 1..Len(tasks) : tasks[t].state = "raised"
    /\ RunLogins # {}
    /\ DOMAIN loaded_teachers \ RunLogins # {}
    /\ DOMAIN csv.rows = DOMAIN loaded_teachers \cup RunLogins

\* C14: checkpoint load outcomes. A run that starts without a progress file
\* goes on with the empty processed set and the empty teacher map. A run that
\* starts with an unparseable progress file ends at the load: it fetches no
\* course list, submits no task, keeps an empty memory and leaves the progress
\* file and the export alone.
LoadOutcomes ==
    [][pc = "start" =>
          /\ (disk.kind = "absent" /\ pc' = "enumerate") =>
                /\ processed_courses' = {}
                /\ all_teacher_courses' = EmptyMap
                /\ courses_processed' = 0
          /\ disk.kind = "torn" =>
                /\ pc' \in {"failed", "killed"}
                /\ all_courses' = <<>> /\ tasks' = <<>>
                /\ processed_courses' = {} /\ all_teacher_courses' = EmptyMap
                /\ disk' = disk /\ csv' = csv]_vars

\* A run found the progress file torn by the previous run and failed at load.
LoadOutcomesWitness ==
    /\ pc = "failed" /\ run > 1
    /\ disk.kind = "torn"
    /\ all_courses = <<>> /\ tasks = <<>>
    /\ processed_courses = {} /\ all_teacher_courses = EmptyMap

\* C15: only course-scoped failures are logged and skipped. When the task of
\* a course returned and the save_progress call that follows its merge fails
\* (the progress file does not hold the document of the new memory and the
\* process was not killed), the failure terminates the run: main() does not go
\* on collecting.
SaveFailed ==
    /\ pc = "collect" /\ pc' # "killed"
    /\ \E t \in NewlyCollected : tasks[t].state = "ok"
    /\ disk' # save_progress(processed_courses', all_teacher_courses')

SaveFailurePropagates == [][SaveFailed => pc' = "failed"]_vars

\* C16: checkpoint round-trip. For every (processed set, teacher map) that
\* main() holds in a reachable state, load_progress applied to the file that
\* save_progress writes from it returns without an error an equal processed
\* set and an equal teacher map.
CheckpointRoundTrip ==
    LET r == load_progress(save_progress(processed_courses, all_teacher_courses)) IN
    /\ ~r.raised
    /\ r.processed = processed_courses
    /\ r.teachers = all_teacher_courses

\* A run has just loaded the file the previous run saved last: every course is
\* in the processed set and the map holds several logins.
CheckpointRoundTripWitness ==
    /\ run > 1 /\ pc = "enumerate"
    /\ disk = save_progress(processed_courses, all_teacher_courses)
    /\ Cardinality(processed_courses) = NumCourses
    /\ Cardinality(DOMAIN all_teacher_courses) >= 2

\* C17 (as stated): after Enumerate, the processed set is a subset of the ids
\* of the courses the listing of this run returned, also in a run that
\* started from the checkpoint of an earlier run.
ProcessedSubsetOfListing ==
    pc \in {"collect", "done"} => processed_courses \subseteq IdsOf(all_courses)

\* C17 (amended): after Enumerate, the processed set holds the ids loaded from
\* the checkpoint, all of them, and besides them only ids of courses the
\* listing of this run returned.
ProcessedSubsetOfListingOrLoaded ==
    pc \in {"collect", "done"} =>
        /\ loaded \subseteq processed_courses
        /\ processed_courses \ loaded \subseteq IdsOf(all_courses)

\* A resumed run whose checkpoint names a course that the listing no longer
\* returns has added a course of its own listing.
ProcessedSubsetWitness ==
    /\ pc = "done" /\ run > 1
    /\ loaded \ IdsOf(all_courses) # {}
    /\ processed_courses \ loaded # {}

\* C18: malformed record. A course one of whose teacher records has a full
\* name without a space never yields a result: each of its tasks that finishes
\* has raised and handed over no teacher, the course id is not in the
\* processed set, in memory or on disk, and no login that only this course
\* lists (the well-formed records before the offending one included) is in
\* the teacher map or in the export.
HasMalformedRecord(c) ==
    \E p \in 1..Len(Enrollments(world, c)) : \E i \in 1..Len(Enrollments(world, c)[p]) :
        SpacePositions(Enrollments(world, c)[p][i].name) = {}

OwnLogins(c) == LoginsOf(c) \ UNION {LoginsOf(d) : d \in CourseIds \ {c}}

MalformedRecordFailsCourse ==
    \A c \in CourseIds :
        HasMalformedRecord(c) =>
            /\ \A t \in 1..Len(tasks) :
                  (tasks[t].course.id = c /\ Finished(t)) =>
                      tasks[t].state = "raised" /\ tasks[t].result = EmptyMap
            /\ Str(c) \notin processed_courses
            /\ Str(c) \notin ProcessedOnDisk
            /\ OwnLogins(c) \cap DOMAIN all_teacher_courses = {}
            /\ OwnLogins(c) \cap DOMAIN csv.rows = {}

\* A run has ended in which the task of the course with the malformed record
\* was collected as a failure, after a well-formed record of the same page,
\* and another course was merged and saved.
MalformedRecordWitness ==
    /\ pc = "done"
    /\ \E t \in 1..Len(tasks) :
          /\ HasMalformedRecord(tasks[t].course.id)
          /\ tasks[t].collected /\ tasks[t].state = "raised"
          /\ Cardinality(OwnLogins(tasks[t].course.id)) >= 2
    /\ \E u \in 1..Len(tasks) :
          /\ tasks[u].collected /\ tasks[u].state = "ok"
          /\ Str(tasks[u].course.id) \in ProcessedOnDisk

\* C19: checkpoint consistency. Whenever a save_progress call has completed,
\* the progress file holds the processed set and the teacher map that main()
\* holds at that moment; and whenever the file is a complete document, every
\* course id in its processed list has all the logins its processing returns
\* among the keys of the file's teacher map.
SaveWritesMemory ==
    (disk' # disk /\ disk'.kind = "ok") =>
        /\ ~load_progress(disk').raised
        /\ load_progress(disk').processed = processed_courses'
        /\ load_progress(disk').teachers = all_teacher_courses'

DiskHasTeachersOfProcessed ==
    disk.kind = "ok" =>
        \A c \in CourseIds :
            Str(c) \in ProcessedOnDisk =>
                /\ \E r \in TaskOutcomes[world][c] : ~r.raised
                /\ \A r \in TaskOutcomes[world][c] :
                      ~r.raised => DOMAIN r.teachers \subseteq DOMAIN disk.data.all_teacher_courses

CheckpointConsistency == []DiskHasTeachersOfProcessed /\ [][SaveWritesMemory]_vars

\* The save after the last course of a first run has completed: the file names
\* every course and holds the teachers of all of them.
CheckpointConsistencyWitness ==
    /\ run = 1 /\ pc = "collect"
    /\ \A t \in 1..Len(tasks) : tasks[t].collected
    /\ disk = save_progress(processed_courses, all_teacher_courses)
    /\ Cardinality(ProcessedOnDisk) = NumCourses
    /\ Cardinality(DOMAIN disk.data.all_teacher_courses) > NumCourses

\* C20: frame on course failure. The step in which main() collects a task
\* that raised leaves the teacher map, the processed set, the counter of
\* processed courses and the progress file unchanged, and makes no save:
\* no new (processed, teachers) pair is handed to save_progress.
CollectsFailedTask ==
    /\ pc = "collect" /\ pc' # "killed"
    /\ \E t \in NewlyCollected : tasks[t].state = "raised"

FrameOnCourseFailure ==
    [][CollectsFailedTask =>
          UNCHANGED <<all_teacher_courses, processed_courses, courses_processed,
                      disk, held>>]_vars

\* A failed task was collected after a successful one: the memory and the
\* file still hold exactly what the successful course left.
FrameOnCourseFailureWitness ==
    /\ pc = "collect" /\ Len(tasks) >= 2
    /\ \A t \in 1..Len(tasks) : tasks[t].collected
    /\ \E t \in 1..Len(tasks) : tasks[t].state = "raised"
    /\ courses_processed = Cardinality(loaded) + 1
    /\ all_teacher_courses # EmptyMap
    /\ disk = save_progress(processed_courses, all_teacher_courses)
    /\ \E t \in 1..Len(tasks) :
          tasks[t].state = "raised" /\ Str(tasks[t].course.id) \notin processed_courses
====
